---- MODULE Spec2Model ----
\* Model of edx_lint/pylint/filters_docstring/filters_docstring_check.py:
\* the pylint checker FiltersDocstringFormatChecker, its visit_classdef
\* callback and the regular-expression validator _check_docstring_format.
\*
\* A docstring is a sequence of tokens.  A token stands for a literal piece
\* of text that the patterns name ("Purpose:", "NA", "-", ...) or for one
\* character of a class the patterns tell apart: SP (a space or tab), LF (a
\* newline) and "x" (any other character).
EXTENDS Integers, Sequences, FiniteSets, TLC

VARIABLES module, visited, docstring, error_messages, returned_at, messages

vars == <<module, visited, docstring, error_messages, returned_at, messages>>

----------------------------------------------------------------------------
\* Bounds of the input space.

\* class definitions in one analysed module
MaxClasses == 2
\* section-level blocks concatenated into one docstring
MaxBlocks == 4
\* field-level blocks following a "Trigger:" token
MaxFields == 3
\* length of a whitespace run in the layout family
MaxWs == 1
\* length of a docstring of the token-level family
MaxLen == 2

----------------------------------------------------------------------------
\* Characters and literal tokens.

SP == "SP"
LF == "LF"

Literals ==
  {"Purpose:", "Filter Type:", "Trigger:", "NA", "-", "Repository:", "Path:",
   "Function", "or", "Method:"}

Tokens == Literals \cup {SP, LF, "x"}

\* \s
Whitespace == {SP, LF}

\* . without DOTALL, and [^\n]
NotNewline == Tokens \ {LF}

----------------------------------------------------------------------------
\* Regular expressions: a pattern is a sequence of items, an item is
\*   [op |-> "lit",  cls |-> S]   one token of S
\*   [op |-> "star", cls |-> S]   S*
\*   [op |-> "plus", cls |-> S]   S+
\*   [op |-> "alt",  left |-> p, right |-> q]   (p|q), p and q flat patterns

Lit(t) == [op |-> "lit", cls |-> {t}]
Star(S) == [op |-> "star", cls |-> S]
Plus(S) == [op |-> "plus", cls |-> S]
Alt(p, q) == [op |-> "alt", left |-> p, right |-> q]

\* r"Purpose:\s*.*\n"
PurposePattern ==
  <<Lit("Purpose:"), Star(Whitespace), Star(NotNewline), Lit(LF)>>

\* r"Filter Type:\s*.*\n"
TypePattern ==
  <<Lit("Filter Type:"), Star(Whitespace), Star(NotNewline), Lit(LF)>>

\* the list with [^\n]* for [^\n]+
TriggerListPattern_star ==
  <<Lit("-"), Star(Whitespace), Lit("Repository:"), Star(Whitespace),
    Star(NotNewline), Star(Whitespace),
    Lit("-"), Star(Whitespace), Lit("Path:"), Star(Whitespace),
    Star(NotNewline), Star(Whitespace),
    Lit("-"), Star(Whitespace), Lit("Function"), Star(Whitespace), Lit("or"),
    Star(Whitespace), Lit("Method:"), Star(Whitespace), Star(NotNewline)>>

\* the list with a newline required before "- Path:" and "- Function"
TriggerListPattern_lines ==
  <<Lit("-"), Star(Whitespace), Lit("Repository:"), Star(Whitespace),
    Plus(NotNewline), Lit(LF), Star(Whitespace),
    Lit("-"), Star(Whitespace), Lit("Path:"), Star(Whitespace),
    Plus(NotNewline), Lit(LF), Star(Whitespace),
    Lit("-"), Star(Whitespace), Lit("Function"), Star(Whitespace), Lit("or"),
    Star(Whitespace), Lit("Method:"), Star(Whitespace), Plus(NotNewline)>>

\* -\s*Repository:\s*[^\n]+\s*-\s*Path:\s*[^\n]+\s*-\s*Function\s*or\s*Method:\s*[^\n]+
TriggerListPattern ==
  <<Lit("-"), Star(Whitespace), Lit("Repository:"), Star(Whitespace),
    Plus(NotNewline), Star(Whitespace),
    Lit("-"), Star(Whitespace), Lit("Path:"), Star(Whitespace),
    Plus(NotNewline), Star(Whitespace),
    Lit("-"), Star(Whitespace), Lit("Function"), Star(Whitespace), Lit("or"),
    Star(Whitespace), Lit("Method:"), Star(Whitespace), Plus(NotNewline)>>

\* the Trigger pattern without its NA branch
TriggerPattern_list_only ==
  <<Lit("Trigger:"), Star(Whitespace)>> \o TriggerListPattern

\* r"Trigger:\s*(NA|-\s*Repository: ... )"
TriggerPattern ==
  <<Lit("Trigger:"), Star(Whitespace), Alt(<<Lit("NA")>>, TriggerListPattern)>>

\* positions q >= p such that text[p..q-1] lies in cls
Run(text, cls, p) ==
  {q \in p..(Len(text) + 1) : \A k \in p..(q - 1) : text[k] \in cls}

\* positions reached from a position of S by matching one simple item
StepItem(item, text, S) ==
  CASE item.op = "lit" ->
         {p + 1 : p \in {q \in S : q <= Len(text) /\ text[q] \in item.cls}}
    [] item.op = "star" -> UNION {Run(text, item.cls, p) : p \in S}
    [] item.op = "plus" -> UNION {Run(text, item.cls, p) \ {p} : p \in S}

RECURSIVE MatchFlat(_, _, _)
\* positions reached from a position of S by matching a flat pattern
MatchFlat(pattern, text, S) ==
  IF pattern = <<>> \/ S = {} THEN S
  ELSE MatchFlat(Tail(pattern), text, StepItem(Head(pattern), text, S))

RECURSIVE MatchFrom(_, _, _)
\* positions reached from a position of S by matching the pattern
MatchFrom(pattern, text, S) ==
  IF pattern = <<>> \/ S = {} THEN S
  ELSE LET item == Head(pattern)
           T == IF item.op = "alt"
                THEN MatchFlat(item.left, text, S)
                       \cup MatchFlat(item.right, text, S)
                ELSE StepItem(item, text, S)
       IN MatchFrom(Tail(pattern), text, T)

\* re.search(pattern, text, re.MULTILINE) is not None: the patterns hold no
\* ^ or $, so the flag changes nothing and a match may start anywhere
re_search(pattern, text) ==
  MatchFrom(pattern, text, 1..(Len(text) + 1)) # {}

----------------------------------------------------------------------------
\* FiltersDocstringFormatChecker

DOCSTRING_MISSING_PURPOSE == "filter-docstring-missing-purpose"
DOCSTRING_MISSING_TYPE == "filter-docstring-missing-type"
DOCSTRING_MISSING_TRIGGER == "filter-docstring-missing-trigger"

\* msgs: message symbol -> the suffix of its message id ("E%d91" % BASE_ID)
\* and the number of arguments its template takes
msgs ==
  (DOCSTRING_MISSING_PURPOSE :> [id |-> "91", nargs |-> 1])
  @@ (DOCSTRING_MISSING_TYPE :> [id |-> "92", nargs |-> 1])
  @@ (DOCSTRING_MISSING_TRIGGER :> [id |-> "93", nargs |-> 1])

required_sections_reordered ==
  << [pattern |-> TriggerPattern, error_message |-> DOCSTRING_MISSING_TRIGGER],
     [pattern |-> TypePattern, error_message |-> DOCSTRING_MISSING_TYPE],
     [pattern |-> PurposePattern, error_message |-> DOCSTRING_MISSING_PURPOSE] >>

required_sections ==
  << [pattern |-> PurposePattern, error_message |-> DOCSTRING_MISSING_PURPOSE],
     [pattern |-> TypePattern, error_message |-> DOCSTRING_MISSING_TYPE],
     [pattern |-> TriggerPattern, error_message |-> DOCSTRING_MISSING_TRIGGER] >>

stale_error_messages == error_messages

\* error_messages = []
new_error_messages == <<>>

section_found(pattern, text) == re_search(pattern, text)

\* if not re.search(pattern, docstring, re.MULTILINE)
section_missing(pattern, text) == ~re_search(pattern, text)

RECURSIVE check_sections_break(_, _, _)
check_sections_break(sections, text, acc) ==
  IF sections = <<>> THEN acc
  ELSE IF section_missing(Head(sections).pattern, text)
       THEN Append(acc, Head(sections).error_message)
       ELSE check_sections_break(Tail(sections), text, acc)

RECURSIVE check_sections(_, _, _)
\* for pattern, error_message in required_sections: ... append
check_sections(sections, text, acc) ==
  IF sections = <<>> THEN acc
  ELSE check_sections(
         Tail(sections), text,
         IF section_missing(Head(sections).pattern, text)
         THEN Append(acc, Head(sections).error_message)
         ELSE acc)

\* _check_docstring_format(self, docstring)
check_docstring_format(text) ==
  check_sections(required_sections, text, new_error_messages)

BaseName == "OpenEdxPublicFilter"

\* node.is_subtype_of("openedx_filters.tooling.OpenEdxPublicFilter"): the
\* host's ancestry query, an attribute of the node here
is_filter_subtype(node) == node.is_subtype

is_base_class_never(node) == FALSE

\* node.name == "OpenEdxPublicFilter"
is_base_class(node) == node.name = BaseName

\* node.doc_node.value if node.doc_node else ""
docstring_of(node) ==
  IF node.doc_node.present THEN node.doc_node.value ELSE <<>>

add_message_no_args(error_message, index, node) ==
  [msgid |-> error_message, node |-> index, args |-> <<>>]

\* self.add_message(error_message, node=node, args=(node.name,))
add_message(error_message, index, node) ==
  [msgid |-> error_message, node |-> index, args |-> <<node.name>>]

----------------------------------------------------------------------------
\* The analysed source: the class definitions the host walks, in order.

RECURSIVE Concat(_)
Concat(blocks) ==
  IF blocks = <<>> THEN <<>> ELSE Head(blocks) \o Concat(Tail(blocks))

SeqsUpTo(S, n) == UNION {[1..k -> S] : k \in 0..n}

PurposeLine == <<"Purpose:", SP, "x", LF>>
PurposeBare == <<"Purpose:", SP, "x">>
TypeLine == <<"Filter Type:", SP, "x", LF>>
TriggerNA == <<"Trigger:", LF, "NA", LF>>
RepositoryField == <<"-", SP, "Repository:", SP, "x">>
PathField == <<"-", SP, "Path:", SP, "x">>
MethodField == <<"-", SP, "Function", SP, "or", SP, "Method:", SP, "x">>
TriggerList ==
  <<"Trigger:", LF>> \o RepositoryField \o <<LF>> \o PathField \o <<LF>>
    \o MethodField \o <<LF>>

\* whole sections, well formed or cut short, and text around them
SectionBlocks ==
  {PurposeLine, PurposeBare, TypeLine, TriggerNA, TriggerList, <<"x">>}

SectionDocs == {Concat(b) : b \in SeqsUpTo(SectionBlocks, MaxBlocks)}

\* the pieces of a Trigger section: fields after a space or a newline, fields
\* without content, NA, other text
FieldBlocks ==
  {<<s>> \o f : s \in Whitespace, f \in {RepositoryField, PathField, MethodField}}
    \cup {<<LF, "NA">>, <<LF, "-", SP, "Repository:">>,
          <<LF, "-", SP, "Function", SP, "or", SP, "Method:">>, <<"x">>, <<LF>>}

TriggerDocs ==
  {<<"Trigger:">> \o Concat(b) : b \in SeqsUpTo(FieldBlocks, MaxFields)}

WsRuns == SeqsUpTo(Whitespace, MaxWs)

\* the complete Trigger list laid out with every choice of whitespace run
\* after "Trigger:" (a), inside the field markers (b), before a field's
\* content (c) and between a field's content and the next marker (d)
Layout(a, b, c, d) ==
  <<"Trigger:">> \o a \o <<"-">> \o b \o <<"Repository:">> \o c \o <<"x">> \o d
    \o <<"-">> \o b \o <<"Path:">> \o c \o <<"x">> \o d
    \o <<"-">> \o b \o <<"Function">> \o b \o <<"or">> \o b \o <<"Method:">>
    \o c \o <<"x">>

LayoutDocs ==
  {Layout(a, b, c, d) : a \in WsRuns, b \in WsRuns, c \in WsRuns, d \in WsRuns}

TokenDocs == SeqsUpTo(Tokens, MaxLen)

Docstrings == SectionDocs \cup TriggerDocs \cup LayoutDocs \cup TokenDocs

NoDocNode == [present |-> FALSE, value |-> <<>>]
DocNode(text) == [present |-> TRUE, value |-> text]

ClassNames == {BaseName, "CourseFilter"}

\* classes of every ancestry and name, with no docstring or one of four
PassNodes ==
  [is_subtype : BOOLEAN, name : ClassNames,
   doc_node : {NoDocNode, DocNode(PurposeLine \o TypeLine \o TriggerNA),
               DocNode(TypeLine \o TriggerNA), DocNode(PurposeLine)}]

\* one filter class per docstring
FilterNodes ==
  {[is_subtype |-> TRUE, name |-> "CourseFilter", doc_node |-> DocNode(d)] :
     d \in Docstrings}

Modules == SeqsUpTo(PassNodes, MaxClasses) \cup {<<n>> : n \in FilterNodes}

----------------------------------------------------------------------------
\* The linter pass.

Init ==
  /\ module \in Modules
  /\ visited = 0
  /\ docstring = <<>>
  /\ error_messages = <<>>
  /\ returned_at = "none"
  /\ messages = <<>>

\* the class definition the host hands to visit_classdef next
NextNode == module[visited + 1]

\* if not node.is_subtype_of(...): return
VisitNotSubtype ==
  /\ visited < Len(module)
  /\ ~is_filter_subtype(NextNode)
  /\ visited' = visited + 1
  /\ returned_at' = "not_subtype"
  /\ docstring' = <<>>
  /\ error_messages' = <<>>
  /\ UNCHANGED <<module, messages>>

\* if node.name == "OpenEdxPublicFilter": return
VisitBaseClass ==
  /\ visited < Len(module)
  /\ is_filter_subtype(NextNode)
  /\ is_base_class(NextNode)
  /\ visited' = visited + 1
  /\ returned_at' = "base_class"
  /\ docstring' = <<>>
  /\ error_messages' = <<>>
  /\ UNCHANGED <<module, messages>>

\* if not (error_messages := self._check_docstring_format(docstring)): return
VisitClean ==
  /\ visited < Len(module)
  /\ is_filter_subtype(NextNode)
  /\ ~is_base_class(NextNode)
  /\ check_docstring_format(docstring_of(NextNode)) = <<>>
  /\ visited' = visited + 1
  /\ returned_at' = "clean"
  /\ docstring' = docstring_of(NextNode)
  /\ error_messages' = <<>>
  /\ UNCHANGED <<module, messages>>

\* for error_message in error_messages: self.add_message(...)
VisitReport ==
  /\ visited < Len(module)
  /\ is_filter_subtype(NextNode)
  /\ ~is_base_class(NextNode)
  /\ LET found == check_docstring_format(docstring_of(NextNode))
     IN /\ found # <<>>
        /\ error_messages' = found
        /\ messages' =
             messages \o
               [i \in 1..Len(found) |->
                  add_message(found[i], visited + 1, NextNode)]
  /\ visited' = visited + 1
  /\ returned_at' = "reported"
  /\ docstring' = docstring_of(NextNode)
  /\ UNCHANGED module

\* visit_classdef(self, node)
Next == VisitNotSubtype \/ VisitBaseClass \/ VisitClean \/ VisitReport

Spec == Init /\ [][Next]_vars

TypeOK ==
  /\ visited \in 0..Len(module)
  /\ returned_at \in {"none", "not_subtype", "base_class", "clean", "reported"}

----------------------------------------------------------------------------
\* What the claims speak of.

Range(s) == {s[i] : i \in DOMAIN s}

ViolationKinds ==
  {DOCSTRING_MISSING_PURPOSE, DOCSTRING_MISSING_TYPE, DOCSTRING_MISSING_TRIGGER}

\* the position of a violation kind in the order Purpose, Type, Trigger
Rank(kind) ==
  CASE kind = DOCSTRING_MISSING_PURPOSE -> 1
    [] kind = DOCSTRING_MISSING_TYPE -> 2
    [] kind = DOCSTRING_MISSING_TRIGGER -> 3

AllThree ==
  <<DOCSTRING_MISSING_PURPOSE, DOCSTRING_MISSING_TYPE, DOCSTRING_MISSING_TRIGGER>>

\* the pattern that belongs to a violation kind
PatternOf(kind) ==
  CASE kind = DOCSTRING_MISSING_PURPOSE -> PurposePattern
    [] kind = DOCSTRING_MISSING_TYPE -> TypePattern
    [] kind = DOCSTRING_MISSING_TRIGGER -> TriggerPattern

\* the last call reached the validator
Validated == returned_at \in {"clean", "reported"}

\* the class passes the selection filter
Selected(node) == node.is_subtype /\ node.name # "OpenEdxPublicFilter"

TextOf(node) == IF node.doc_node.present THEN node.doc_node.value ELSE <<>>

\* the diagnostics attached to the i-th class definition, in emission order
MsgsOf(i) == SelectSeq(messages, LAMBDA m : m.node = i)

SymbolsOf(i) == [k \in DOMAIN MsgsOf(i) |-> MsgsOf(i)[k].msgid]

TokAt(text, p, tok) == p \in 1..Len(text) /\ text[p] = tok

Occurs(text, tok) == \E i \in 1..Len(text) : text[i] = tok

RECURSIVE Indented(_, _)
\* only spaces lie between the start of the line and position i
Indented(text, i) ==
  \/ i = 1
  \/ text[i - 1] = LF
  \/ text[i - 1] = SP /\ Indented(text, i - 1)

\* a line begins with tok (after indentation at most) and ends in a newline
HasLine(text, tok) ==
  \E i \in 1..Len(text) :
    /\ text[i] = tok
    /\ Indented(text, i)
    /\ \E j \in (i + 1)..Len(text) : text[j] = LF

RECURSIVE SkipWs(_, _)
\* the first position at or after p that holds no whitespace
SkipWs(text, p) ==
  IF p <= Len(text) /\ text[p] \in {SP, LF} THEN SkipWs(text, p + 1) ELSE p

RECURSIVE LineEnd(_, _)
\* the position of the first newline at or after p, or the end of the text
LineEnd(text, p) ==
  IF p <= Len(text) /\ text[p] # LF THEN LineEnd(text, p + 1) ELSE p

RECURSIVE WordsEnd(_, _, _)
\* the position after the words, each after optional whitespace; 0 if absent
WordsEnd(text, p, words) ==
  IF words = <<>> THEN p
  ELSE LET q == SkipWs(text, p)
       IN IF TokAt(text, q, Head(words))
          THEN WordsEnd(text, q + 1, Tail(words))
          ELSE 0

\* the position after the field marker "- words" that starts at p; 0 if absent
MarkerEnd(text, p, words) ==
  IF TokAt(text, p, "-") THEN WordsEnd(text, p + 1, words) ELSE 0

\* where a field's content may end: it starts after optional whitespace at m
\* and is one or more characters of one line
ContentEnds(text, m) ==
  UNION {(c + 1)..LineEnd(text, c) : c \in m..SkipWs(text, m)}

\* the list "- Repository:", "- Path:", "- Function or Method:" starts at p,
\* in that order, each field with content
ListAt(text, p) ==
  LET m1 == MarkerEnd(text, p, <<"Repository:">>)
  IN /\ m1 # 0
     /\ \E e1 \in ContentEnds(text, m1) :
          LET m2 == MarkerEnd(text, SkipWs(text, e1), <<"Path:">>)
          IN /\ m2 # 0
             /\ \E e2 \in ContentEnds(text, m2) :
                  LET m3 == MarkerEnd(text, SkipWs(text, e2),
                                      <<"Function", "or", "Method:">>)
                  IN m3 # 0 /\ ContentEnds(text, m3) # {}

\* "Trigger:" followed, after optional whitespace, by NA
HasTriggerNA(text) ==
  \E i \in 1..Len(text) :
    text[i] = "Trigger:" /\ TokAt(text, SkipWs(text, i + 1), "NA")

\* "Trigger:" followed, after optional whitespace, by NA or the complete list
TriggerWellFormed(text) ==
  \/ HasTriggerNA(text)
  \/ \E i \in 1..Len(text) :
       text[i] = "Trigger:" /\ ListAt(text, SkipWs(text, i + 1))

----------------------------------------------------------------------------
\* C1: the list _check_docstring_format returns is a duplicate-free
\* subsequence of (MISSING_PURPOSE, MISSING_TYPE, MISSING_TRIGGER): at most
\* three entries, each a violation kind, in strictly increasing rule order,
\* whatever order the sections have in the text.
C1_ResultIsOrderedSubsequence ==
  Validated =>
    /\ Len(error_messages) \in 0..3
    /\ \A i \in DOMAIN error_messages : error_messages[i] \in ViolationKinds
    /\ \A i, j \in DOMAIN error_messages :
         i < j => Rank(error_messages[i]) < Rank(error_messages[j])

\* several kinds reported for a text that names Trigger before Purpose
C1_Witness ==
  /\ Validated
  /\ Len(error_messages) >= 2
  /\ \E i, j \in 1..Len(docstring) :
       i < j /\ docstring[i] = "Trigger:" /\ docstring[j] = "Purpose:"

\* C2: for an empty docstring, and for a selected class with no docstring at
\* all, the call runs to its end and the validator returns exactly
\* [MISSING_PURPOSE, MISSING_TYPE, MISSING_TRIGGER], all three reported.
C2_EmptyDocstringMissesAll ==
  /\ (Validated /\ docstring = <<>>) =>
       (error_messages = AllThree /\ returned_at = "reported")
  /\ \A i \in 1..visited :
       (Selected(module[i])
          /\ (~module[i].doc_node.present \/ module[i].doc_node.value = <<>>))
         => SymbolsOf(i) = AllThree

\* a selected class without a doc_node has been visited
C2_Witness ==
  /\ visited >= 1
  /\ Selected(module[visited])
  /\ ~module[visited].doc_node.present
  /\ returned_at = "reported"
  /\ error_messages = AllThree

\* C3: a text that holds a "Purpose:" line ended by a newline, a
\* "Filter Type:" line ended by a newline and a well-formed Trigger section
\* (NA or the complete list), in any order and with any text around them,
\* validates to the empty list.
C3_AllSectionsGiveEmptyList ==
  (/\ Validated
   /\ HasLine(docstring, "Purpose:")
   /\ HasLine(docstring, "Filter Type:")
   /\ TriggerWellFormed(docstring))
    => (error_messages = <<>> /\ returned_at = "clean")

\* the sections in the order Trigger, Type, Purpose, after other text
C3_Witness ==
  /\ returned_at = "clean"
  /\ docstring = <<"x">> \o TriggerList \o TypeLine \o PurposeLine

C6_RulesAreIndependent ==
  /\ Validated =>
       \A kind \in ViolationKinds :
         /\ (kind \in Range(error_messages))
              <=> ~re_search(PatternOf(kind), docstring)
         /\ Cardinality({i \in DOMAIN error_messages : error_messages[i] = kind}) <= 1
  /\ \A i, j \in 1..visited :
       (Selected(module[i]) /\ Selected(module[j])) =>
         \A kind \in ViolationKinds :
           (re_search(PatternOf(kind), TextOf(module[i]))
              = re_search(PatternOf(kind), TextOf(module[j])))
             => ((kind \in Range(SymbolsOf(i))) <=> (kind \in Range(SymbolsOf(j))))

\* the Type rule passes while the two other rules fail
C6_Witness ==
  /\ Validated
  /\ error_messages = <<DOCSTRING_MISSING_PURPOSE, DOCSTRING_MISSING_TRIGGER>>

\* C7: no diagnostic is attached to a class that is not a subtype of the base
\* filter or that is named OpenEdxPublicFilter, and the validator runs for a
\* visited class exactly when the class is a subtype with another name.
C7_SelectionFilter ==
  /\ \A k \in DOMAIN messages : Selected(module[messages[k].node])
  /\ \A i \in 1..visited : ~Selected(module[i]) => MsgsOf(i) = <<>>
  /\ visited >= 1 => (Validated <=> Selected(module[visited]))

\* the base class itself, a subtype by the host's test, visited after a
\* class that was reported, is skipped
C7_Witness ==
  /\ visited = 2
  /\ MsgsOf(1) # <<>>
  /\ module[2].is_subtype
  /\ module[2].name = "OpenEdxPublicFilter"
  /\ returned_at = "base_class"

\* C8: a selected class gets one diagnostic per violation kind the validator
\* returns and no other, in the order Purpose, Type, Trigger, each a
\* registered message symbol attached to that class with the class name as
\* its only argument; none when the validator returns the empty list.
C8_OneDiagnosticPerViolation ==
  /\ \A i \in 1..visited :
       Selected(module[i]) =>
         /\ \A kind \in ViolationKinds :
              Cardinality({k \in DOMAIN MsgsOf(i) : MsgsOf(i)[k].msgid = kind})
                = IF re_search(PatternOf(kind), TextOf(module[i])) THEN 0 ELSE 1
         /\ \A k \in DOMAIN MsgsOf(i) :
              /\ MsgsOf(i)[k].msgid \in DOMAIN msgs
              /\ MsgsOf(i)[k].args = <<module[i].name>>
              /\ Len(MsgsOf(i)[k].args) = msgs[MsgsOf(i)[k].msgid].nargs
         /\ \A k, l \in DOMAIN MsgsOf(i) :
              k < l => Rank(MsgsOf(i)[k].msgid) < Rank(MsgsOf(i)[l].msgid)
  /\ \A k, l \in DOMAIN messages : k < l => messages[k].node <= messages[l].node
  /\ Validated => SymbolsOf(visited) = error_messages

\* two diagnostics for the second class of a module
C8_Witness ==
  /\ visited = 2
  /\ returned_at = "reported"
  /\ Len(MsgsOf(2)) = 2

\* C9: two visits of equal class definitions emit the same diagnostics, and
\* two validated classes with the same docstring get the same violation
\* kinds, wherever they stand in the pass.
C9_NoCrossCallState ==
  \A i, j \in 1..visited :
    /\ module[i] = module[j] =>
         [k \in DOMAIN MsgsOf(i) |-> [msgid |-> MsgsOf(i)[k].msgid, args |-> MsgsOf(i)[k].args]]
           = [k \in DOMAIN MsgsOf(j) |-> [msgid |-> MsgsOf(j)[k].msgid, args |-> MsgsOf(j)[k].args]]
    /\ (Selected(module[i]) /\ Selected(module[j])
          /\ TextOf(module[i]) = TextOf(module[j]))
         => SymbolsOf(i) = SymbolsOf(j)

\* the same class definition visited twice, reported both times
C9_Witness ==
  /\ visited = 2
  /\ module[1] = module[2]
  /\ MsgsOf(1) # <<>>
  /\ MsgsOf(2) # <<>>

\* the complete Trigger list, bare of whitespace
CanonicalList ==
  <<"Trigger:", "-", "Repository:", "x", "-", "Path:", "x",
    "-", "Function", "or", "Method:", "x">>

\* C10: the complete Trigger list satisfies the Trigger rule with any run of
\* spaces or newlines after "Trigger:", inside the field markers, before a
\* field's content and between a field and the next, on one line as well as
\* one field per line.
C10_TriggerListWhitespaceLax ==
  (Validated
     /\ SelectSeq(docstring, LAMBDA t : t \notin {SP, LF}) = CanonicalList)
    => DOCSTRING_MISSING_TRIGGER \notin Range(error_messages)

\* the whole list on one line, separated by single spaces
C10_Witness ==
  /\ Validated
  /\ docstring = Layout(<<SP>>, <<SP>>, <<SP>>, <<SP>>)
  /\ DOCSTRING_MISSING_TRIGGER \notin Range(error_messages)

====
